---- MODULE Spec2Model ----
(***************************************************************************)
(* The quota governor of copernicus_collector.py: the persisted quota      *)
(* document (quota_tracker.json), load_quota / save_quota, check_quota,    *)
(* use_quota and get_quota_status, driven by a wall clock.                 *)
(*                                                                         *)
(* Spec      one process calling the governor's functions, each call one   *)
(*           atomic step, with the clock advancing by days between calls.  *)
(* SpecConc  two processes, each running check, gated operation, commit,   *)
(*           interleaved at the reads and writes of the file.              *)
(* SpecLoad, SpecStatus  load_quota and get_quota_status alone, over the   *)
(*           calendar and the time of day.                                 *)
(* SpecRun   collect_all_copernicus_data, a step at a time.                *)
(* SpecIO    the calls on the bytes of the file: reads that fail, and a    *)
(*           save in its steps, with a reader and a crash in between.      *)
(***************************************************************************)
EXTENDS Integers, Sequences, FiniteSets, TLC

VARIABLES
    file,       \* the content of QUOTA_FILE (present = FALSE: no file)
    now,        \* datetime.now(): [y, m, d, t], t the time of day
    call,       \* the last governor call: its name, arguments, the file it found, its result
    gated,      \* every commit so far directly followed a granted check of the same cost
    monthZero,  \* the usage of the calendar month of `now` started from zero
    monthPU,    \* sum of the costs committed in the calendar month of `now`
    monthReq,   \* number of commits made in the calendar month of `now`
    commitsOn,  \* date -> number of commits made on that date
    nCommits,   \* total number of commits made
    daysPassed, \* number of days the clock has advanced
    pc,         \* SpecConc: where each process is in check / operation / use_quota
    mem,        \* SpecConc: the quota dict each process holds inside use_quota
    grant,      \* SpecConc: each process's last granted check
    run,        \* SpecRun: the collection run: its mode, its place, what it did
    io          \* SpecIO: the bytes of QUOTA_FILE and the call reading or writing them

vars == <<file, now, call, gated, monthZero, monthPU, monthReq, commitsOn,
          nCommits, daysPassed, pc, mem, grant, run, io>>

\* the state of the two-process runs, which the single process leaves alone
conc == <<pc, mem, grant>>

\* the state of the collection run and of the file's bytes, which the calls
\* of Spec and SpecConc leave alone
aside == <<run, io>>

-----------------------------------------------------------------------------
(* Bounds of the model.                                                    *)

MaxCommits == 3
MaxDays == 2
\* the last tick of a day: the time of day runs over 0..MaxTick
MaxTick == 2

-----------------------------------------------------------------------------
(* The clock and its formatting.                                           *)

IsLeap(y) == (y % 4 = 0 /\ y % 100 # 0) \/ y % 400 = 0

DaysInMonth(y, m) ==
    IF m = 2 THEN (IF IsLeap(y) THEN 29 ELSE 28)
    ELSE IF m \in {4, 6, 9, 11} THEN 30 ELSE 31

\* strftime('%Y-%m')
FormatMonth(t) == <<t.y, t.m>>

\* strftime('%Y-%m-%d')
FormatDate(t) == <<t.y, t.m, t.d>>

\* isoformat()
IsoFormat(t) == <<t.y, t.m, t.d, t.t>>

\* Python's None, for last_collection_date
None == <<>>

\* pu_cost=None in use_quota's signature
NoCost == -1

NextDay(t) ==
    IF t.d < DaysInMonth(t.y, t.m) THEN [t EXCEPT !.d = t.d + 1]
    ELSE IF t.m = 12 THEN [y |-> t.y + 1, m |-> 1, d |-> 1, t |-> t.t]
    ELSE [y |-> t.y, m |-> t.m + 1, d |-> 1, t |-> t.t]

PrevDay(t) ==
    IF t.d > 1 THEN [t EXCEPT !.d = t.d - 1]
    ELSE IF t.m = 1 THEN [y |-> t.y - 1, m |-> 12, d |-> 31, t |-> t.t]
    ELSE [y |-> t.y, m |-> t.m - 1, d |-> DaysInMonth(t.y, t.m - 1), t |-> t.t]

\* the last day of the month before t's
PrevMonthEnd(t) == PrevDay([t EXCEPT !.d = 1])

TicksPerDay == MaxTick + 1

DaysBeforeYear(y) ==
    365 * (y - 1) + ((y - 1) \div 4) - ((y - 1) \div 100) + ((y - 1) \div 400)

RECURSIVE DaysBeforeMonth(_, _)
DaysBeforeMonth(y, m) ==
    IF m <= 1 THEN 0 ELSE DaysBeforeMonth(y, m - 1) + DaysInMonth(y, m - 1)

\* date.toordinal()
ToOrdinal(t) == DaysBeforeYear(t.y) + DaysBeforeMonth(t.y, t.m) + t.d

\* (a - b).days: a timedelta keeps the whole days, rounded down
TimedeltaDays(a, b) ==
    ((ToOrdinal(a) - ToOrdinal(b)) * TicksPerDay + (a.t - b.t)) \div TicksPerDay

-----------------------------------------------------------------------------
(* The quota document.                                                     *)

PU_COSTS ==
    [map_rgb |-> 50, map_ndvi |-> 50, ndvi |-> 30, ndwi |-> 30, ndsi |-> 30,
     zonal_stats |-> 40]

\* PU_COSTS.get(operation_type, 30) when pu_cost is None
PuCostOf(operation_type, pu_cost) ==
    IF pu_cost = NoCost
    THEN IF operation_type \in DOMAIN PU_COSTS THEN PU_COSTS[operation_type] ELSE 30
    ELSE pu_cost

\* os.path.exists(QUOTA_FILE) is false
NoFile ==
    [present |-> FALSE, monthly_limit_pu |-> 0, monthly_limit_requests |-> 0,
     current_month |-> None, processing_units_used |-> 0, requests_used |-> 0,
     last_updated |-> None, daily_budget_pu |-> 0, daily_budget_requests |-> 0,
     collections_today |-> 0, last_collection_date |-> None]

\* the default document load_quota creates
DefaultQuota(t) ==
    [present |-> TRUE, monthly_limit_pu |-> 10000, monthly_limit_requests |-> 10000,
     current_month |-> FormatMonth(t), processing_units_used |-> 0,
     requests_used |-> 0, last_updated |-> IsoFormat(t), daily_budget_pu |-> 300,
     daily_budget_requests |-> 300, collections_today |-> 0,
     last_collection_date |-> None]

\* save_quota: stamps last_updated and writes the document; the value is the
\* document written (the caller's dict carries the same stamp)
save_quota(quota, t) == [quota EXCEPT !.last_updated = IsoFormat(t)]

\* load_quota resetting the dict without saving it
Mut_load_quota_unsaved(f, t) ==
    IF f.present
    THEN IF f.current_month # FormatMonth(t)
         THEN [quota |-> save_quota([f EXCEPT !.current_month = FormatMonth(t),
                                              !.processing_units_used = 0,
                                              !.requests_used = 0,
                                              !.collections_today = 0], t),
               file |-> f]
         ELSE [quota |-> f, file |-> f]
    ELSE LET q == save_quota(DefaultQuota(t), t)
         IN  [quota |-> q, file |-> q]

\* load_quota forgetting to reset requests_used
Mut_load_quota_keeps_requests(f, t) ==
    IF f.present
    THEN IF f.current_month # FormatMonth(t)
         THEN LET q == save_quota([f EXCEPT !.current_month = FormatMonth(t),
                                            !.processing_units_used = 0,
                                            !.collections_today = 0], t)
              IN  [quota |-> q, file |-> q]
         ELSE [quota |-> f, file |-> f]
    ELSE LET q == save_quota(DefaultQuota(t), t)
         IN  [quota |-> q, file |-> q]

\* load_quota forgetting to reset collections_today
Mut_load_quota_keeps_daily(f, t) ==
    IF f.present
    THEN IF f.current_month # FormatMonth(t)
         THEN LET q == save_quota([f EXCEPT !.current_month = FormatMonth(t),
                                            !.processing_units_used = 0,
                                            !.requests_used = 0], t)
              IN  [quota |-> q, file |-> q]
         ELSE [quota |-> f, file |-> f]
    ELSE LET q == save_quota(DefaultQuota(t), t)
         IN  [quota |-> q, file |-> q]

\* load_quota: the dict returned and the file left behind
\* load_quota stamping and saving the document at every call
Mut_load_quota_always_saves(f, t) ==
    IF f.present
    THEN IF f.current_month # FormatMonth(t)
         THEN LET q == save_quota([f EXCEPT !.current_month = FormatMonth(t),
                                            !.processing_units_used = 0,
                                            !.requests_used = 0,
                                            !.collections_today = 0], t)
              IN  [quota |-> q, file |-> q]
         ELSE LET q == save_quota(f, t)
              IN  [quota |-> q, file |-> q]
    ELSE LET q == save_quota(DefaultQuota(t), t)
         IN  [quota |-> q, file |-> q]

\* load_quota handing out the default document without writing it
Mut_load_quota_default_unsaved(f, t) ==
    IF f.present
    THEN IF f.current_month # FormatMonth(t)
         THEN LET q == save_quota([f EXCEPT !.current_month = FormatMonth(t),
                                            !.processing_units_used = 0,
                                            !.requests_used = 0,
                                            !.collections_today = 0], t)
              IN  [quota |-> q, file |-> q]
         ELSE [quota |-> f, file |-> f]
    ELSE [quota |-> DefaultQuota(t), file |-> f]

\* load_quota zeroing the counters at every load, whatever the month
Mut_load_quota_always_resets(f, t) ==
    IF f.present
    THEN LET q == save_quota([f EXCEPT !.current_month = FormatMonth(t),
                                       !.processing_units_used = 0,
                                       !.requests_used = 0,
                                       !.collections_today = 0], t)
         IN  [quota |-> q, file |-> q]
    ELSE LET q == save_quota(DefaultQuota(t), t)
         IN  [quota |-> q, file |-> q]

\* load_quota replacing a document of an earlier month by the default one
Mut_load_quota_rollover_default(f, t) ==
    IF f.present /\ f.current_month = FormatMonth(t)
    THEN [quota |-> f, file |-> f]
    ELSE LET q == save_quota(DefaultQuota(t), t)
         IN  [quota |-> q, file |-> q]

load_quota(f, t) ==
    IF f.present
    THEN IF f.current_month # FormatMonth(t)
         THEN LET q == save_quota([f EXCEPT !.current_month = FormatMonth(t),
                                            !.processing_units_used = 0,
                                            !.requests_used = 0,
                                            !.collections_today = 0], t)
              IN  [quota |-> q, file |-> q]
         ELSE [quota |-> f, file |-> f]
    ELSE LET q == save_quota(DefaultQuota(t), t)
         IN  [quota |-> q, file |-> q]

\* check_quota comparing the cost with the limit, not with what remains
Mut_check_quota_ignoring_used(f, t, pu_cost) ==
    LET l == load_quota(f, t)
        remaining_req == l.quota.monthly_limit_requests - l.quota.requests_used
    IN  [ok |-> IF l.quota.monthly_limit_pu < pu_cost THEN FALSE
                ELSE IF remaining_req < 1 THEN FALSE
                ELSE TRUE,
         file |-> l.file]

\* check_quota refusing a cost equal to what remains
Mut_check_quota_off_by_one(f, t, pu_cost) ==
    LET l == load_quota(f, t)
        remaining_pu == l.quota.monthly_limit_pu - l.quota.processing_units_used
        remaining_req == l.quota.monthly_limit_requests - l.quota.requests_used
    IN  [ok |-> IF remaining_pu <= pu_cost THEN FALSE
                ELSE IF remaining_req < 1 THEN FALSE
                ELSE TRUE,
         file |-> l.file]

\* check_quota booking the cost it grants
Mut_check_quota_reserving(f, t, pu_cost) ==
    LET l == load_quota(f, t)
        remaining_pu == l.quota.monthly_limit_pu - l.quota.processing_units_used
        remaining_req == l.quota.monthly_limit_requests - l.quota.requests_used
        ok == IF remaining_pu < pu_cost THEN FALSE
              ELSE IF remaining_req < 1 THEN FALSE
              ELSE TRUE
    IN  [ok |-> ok,
         file |-> IF ok
                  THEN save_quota([l.quota EXCEPT !.processing_units_used = @ + pu_cost], t)
                  ELSE l.file]

\* check_quota saving the dict it loaded
Mut_check_quota_saving(f, t, pu_cost) ==
    LET l == load_quota(f, t)
        remaining_pu == l.quota.monthly_limit_pu - l.quota.processing_units_used
        remaining_req == l.quota.monthly_limit_requests - l.quota.requests_used
    IN  [ok |-> IF remaining_pu < pu_cost THEN FALSE
                ELSE IF remaining_req < 1 THEN FALSE
                ELSE TRUE,
         file |-> save_quota(l.quota, t)]

\* check_quota: the value returned and the file left behind
check_quota(f, t, pu_cost) ==
    LET l == load_quota(f, t)
        remaining_pu == l.quota.monthly_limit_pu - l.quota.processing_units_used
        remaining_req == l.quota.monthly_limit_requests - l.quota.requests_used
    IN  [ok |-> IF remaining_pu < pu_cost THEN FALSE
                ELSE IF remaining_req < 1 THEN FALSE
                ELSE TRUE,
         file |-> l.file]

\* use_quota forgetting to count the request
Mut_use_quota_update_no_request(quota, t, operation_type, pu_cost) ==
    LET cost == PuCostOf(operation_type, pu_cost)
        today == FormatDate(t)
        q1 == [quota EXCEPT !.processing_units_used = @ + cost]
        q2 == IF q1.last_collection_date # today
              THEN [q1 EXCEPT !.collections_today = 1,
                              !.last_collection_date = today]
              ELSE [q1 EXCEPT !.collections_today = @ + 1]
    IN  save_quota(q2, t)

\* use_quota clamping the usage at the monthly limit
Mut_use_quota_update_clamped(quota, t, operation_type, pu_cost) ==
    LET cost == PuCostOf(operation_type, pu_cost)
        today == FormatDate(t)
        sum == quota.processing_units_used + cost
        q1 == [quota EXCEPT !.processing_units_used =
                                IF sum > quota.monthly_limit_pu
                                THEN quota.monthly_limit_pu ELSE sum,
                            !.requests_used = @ + 1]
        q2 == IF q1.last_collection_date # today
              THEN [q1 EXCEPT !.collections_today = 1,
                              !.last_collection_date = today]
              ELSE [q1 EXCEPT !.collections_today = @ + 1]
    IN  save_quota(q2, t)

\* use_quota counting on from the earlier day's collections
Mut_use_quota_update_no_daily_reset(quota, t, operation_type, pu_cost) ==
    LET cost == PuCostOf(operation_type, pu_cost)
        today == FormatDate(t)
        q1 == [quota EXCEPT !.processing_units_used = @ + cost,
                            !.requests_used = @ + 1]
        q2 == [q1 EXCEPT !.collections_today = @ + 1,
                         !.last_collection_date = today]
    IN  save_quota(q2, t)

\* use_quota charging every operation the default 30 units
Mut_use_quota_update_flat_cost(quota, t, operation_type, pu_cost) ==
    LET cost == 30
        today == FormatDate(t)
        q1 == [quota EXCEPT !.processing_units_used = @ + cost,
                            !.requests_used = @ + 1]
        q2 == IF q1.last_collection_date # today
              THEN [q1 EXCEPT !.collections_today = 1,
                              !.last_collection_date = today]
              ELSE [q1 EXCEPT !.collections_today = @ + 1]
    IN  save_quota(q2, t)

\* use_quota after its load_quota: the update of the dict and save_quota
use_quota_update(quota, t, operation_type, pu_cost) ==
    LET cost == PuCostOf(operation_type, pu_cost)
        today == FormatDate(t)
        q1 == [quota EXCEPT !.processing_units_used = @ + cost,
                            !.requests_used = @ + 1]
        q2 == IF q1.last_collection_date # today
              THEN [q1 EXCEPT !.collections_today = 1,
                              !.last_collection_date = today]
              ELSE [q1 EXCEPT !.collections_today = @ + 1]
    IN  save_quota(q2, t)

\* use_quota: the file left behind
use_quota(f, t, operation_type, pu_cost) ==
    use_quota_update(load_quota(f, t).quota, t, operation_type, pu_cost)

\* days_remaining taken between the dates, dropping the time of day
Mut_DaysRemaining_by_date(today) ==
    LET next_month == IF today.m = 12
                      THEN [y |-> today.y + 1, m |-> 1, d |-> 1, t |-> 0]
                      ELSE [y |-> today.y, m |-> today.m + 1, d |-> 1, t |-> 0]
    IN  ToOrdinal(next_month) - ToOrdinal(today)

\* days_remaining = (next_month - today).days of get_quota_status
DaysRemaining(today) ==
    LET next_month == IF today.m = 12
                      THEN [y |-> today.y + 1, m |-> 1, d |-> 1, t |-> 0]
                      ELSE [y |-> today.y, m |-> today.m + 1, d |-> 1, t |-> 0]
    IN  TimedeltaDays(next_month, today)

\* get_quota_status: the dict returned and the file left behind
\* get_quota_status dividing by max(days_remaining, 1) on the last day too
Mut_get_quota_status_no_zero_guard(f, t) ==
    LET l == load_quota(f, t)
        q == l.quota
        remaining_pu == q.monthly_limit_pu - q.processing_units_used
        remaining_req == q.monthly_limit_requests - q.requests_used
        days_remaining == DaysRemaining(t)
        m == IF days_remaining > 1 THEN days_remaining ELSE 1
    IN  [status |-> [pu_used |-> q.processing_units_used,
                     pu_remaining |-> remaining_pu,
                     pu_limit |-> q.monthly_limit_pu,
                     requests_used |-> q.requests_used,
                     requests_remaining |-> remaining_req,
                     \* (used / limit) * 100, kept as the fraction the float rounds
                     percent_used |-> <<q.processing_units_used * 100,
                                        q.monthly_limit_pu>>,
                     days_remaining |-> days_remaining,
                     safe_daily_pu |-> remaining_pu \div m,
                     collections_today |-> q.collections_today],
         file |-> l.file]

\* get_quota_status reporting the whole limit as what remains
Mut_get_quota_status_remaining_limit(f, t) ==
    LET l == load_quota(f, t)
        q == l.quota
        remaining_pu == q.monthly_limit_pu
        remaining_req == q.monthly_limit_requests - q.requests_used
        days_remaining == DaysRemaining(t)
        m == IF days_remaining > 1 THEN days_remaining ELSE 1
    IN  [status |-> [pu_used |-> q.processing_units_used,
                     pu_remaining |-> remaining_pu,
                     pu_limit |-> q.monthly_limit_pu,
                     requests_used |-> q.requests_used,
                     requests_remaining |-> remaining_req,
                     \* (used / limit) * 100, kept as the fraction the float rounds
                     percent_used |-> <<q.processing_units_used * 100,
                                        q.monthly_limit_pu>>,
                     days_remaining |-> days_remaining,
                     safe_daily_pu |-> IF days_remaining > 0
                                       THEN remaining_pu \div m ELSE 0,
                     collections_today |-> q.collections_today],
         file |-> l.file]

\* get_quota_status dividing towards zero, as int(a / b) does
Mut_get_quota_status_truncating(f, t) ==
    LET l == load_quota(f, t)
        q == l.quota
        remaining_pu == q.monthly_limit_pu - q.processing_units_used
        remaining_req == q.monthly_limit_requests - q.requests_used
        days_remaining == DaysRemaining(t)
        m == IF days_remaining > 1 THEN days_remaining ELSE 1
    IN  [status |-> [pu_used |-> q.processing_units_used,
                     pu_remaining |-> remaining_pu,
                     pu_limit |-> q.monthly_limit_pu,
                     requests_used |-> q.requests_used,
                     requests_remaining |-> remaining_req,
                     \* (used / limit) * 100, kept as the fraction the float rounds
                     percent_used |-> <<q.processing_units_used * 100,
                                        q.monthly_limit_pu>>,
                     days_remaining |-> days_remaining,
                     safe_daily_pu |-> IF days_remaining > 0
                                       THEN (IF remaining_pu < 0
                                             THEN -((-remaining_pu) \div m)
                                             ELSE remaining_pu \div m)
                                       ELSE 0,
                     collections_today |-> q.collections_today],
         file |-> l.file]

get_quota_status(f, t) ==
    LET l == load_quota(f, t)
        q == l.quota
        remaining_pu == q.monthly_limit_pu - q.processing_units_used
        remaining_req == q.monthly_limit_requests - q.requests_used
        days_remaining == DaysRemaining(t)
        m == IF days_remaining > 1 THEN days_remaining ELSE 1
    IN  [status |-> [pu_used |-> q.processing_units_used,
                     pu_remaining |-> remaining_pu,
                     pu_limit |-> q.monthly_limit_pu,
                     requests_used |-> q.requests_used,
                     requests_remaining |-> remaining_req,
                     \* (used / limit) * 100, kept as the fraction the float rounds
                     percent_used |-> <<q.processing_units_used * 100,
                                        q.monthly_limit_pu>>,
                     days_remaining |-> days_remaining,
                     safe_daily_pu |-> IF days_remaining > 0
                                       THEN remaining_pu \div m ELSE 0,
                     collections_today |-> q.collections_today],
         file |-> l.file]

-----------------------------------------------------------------------------
(* The states the governor starts from.                                    *)

\* t = 0 is midnight sharp, t = 1 a later time of that day
StartDates == {[y |-> 2025, m |-> 12, d |-> 30, t |-> 1]}

\* the limits a deployment's quota document carries
Limits == {[pu |-> 100, req |-> 3]}

\* the cost of each commit of the history an initial document records
InitCost == 40

\* the numbers of commits such a history holds
InitHistories == {0, 2}

\* A document an earlier life of the program left behind: `r` commits in the
\* month of `day`, the last `ct` of them on `day`.
Document(lim, day, r, ct) ==
    [present |-> TRUE, monthly_limit_pu |-> lim.pu,
     monthly_limit_requests |-> lim.req, current_month |-> FormatMonth(day),
     processing_units_used |-> r * InitCost, requests_used |-> r,
     last_updated |-> IF r = 0 THEN IsoFormat([day EXCEPT !.d = 1]) ELSE IsoFormat(day),
     daily_budget_pu |-> 300, daily_budget_requests |-> 300,
     collections_today |-> IF r = 0 THEN 0 ELSE ct,
     last_collection_date |-> IF r = 0 THEN None ELSE FormatDate(day)]

InitFiles(t) ==
    {NoFile} \cup
    {Document(lim, day, r, ct) :
        lim \in Limits, day \in {t, PrevDay(t), PrevMonthEnd(t)},
        r \in InitHistories, ct \in 1..2}

NoStatus ==
    [pu_used |-> 0, pu_remaining |-> 0, pu_limit |-> 0, requests_used |-> 0,
     requests_remaining |-> 0, percent_used |-> <<0, 1>>, days_remaining |-> 0,
     safe_daily_pu |-> 0,
     collections_today |-> 0]

NoCall ==
    [name |-> "none", cost |-> 0, min_requests |-> 1, pre |-> NoFile,
     clock |-> CHOOSE t \in StartDates : TRUE,
     ok |-> FALSE, quota |-> NoFile, status |-> NoStatus]

\* the usage of the month of t recorded in f starts from zero at the next load
StartsFromZero(f, t) ==
    \/ ~f.present
    \/ f.current_month # FormatMonth(t)
    \/ f.processing_units_used = 0 /\ f.requests_used = 0

Procs == {1, 2}

NoGrant == [kind |-> "", cost |-> 0, seen |-> NoFile, at |-> 0, done |-> FALSE]

\* the keys of the results dict of a collection run
ResultKeys == {"weather", "map_rgb", "map_ndvi", "ndvi", "ndwi", "ndsi"}

\* no collection run has started
NoRun ==
    [pc |-> "idle", n |-> 0, mode |-> "", at |-> CHOOSE t \in StartDates : TRUE,
     start |-> NoFile, est |-> 0, step |-> 0,
     results |-> [k \in ResultKeys |-> "absent"],
     before |-> NoFile, granted |-> {}, denied |-> {}, attempted |-> {},
     failed |-> {}, commits |-> 0, spent |-> 0, last |-> "start"]

\* The bytes at QUOTA_FILE are "intact" (the path holds exactly `file`: a whole
\* document, or nothing when there is none), "empty" (opened for writing and
\* truncated), "partial" (part of a document written) or "unreadable" (there,
\* but open or json.load fails on it). While they are not intact `file` keeps
\* the last whole document. NoIO: intact, writable, no call under way.
NoIO ==
    [stage |-> "idle", disk |-> "intact", writable |-> TRUE, pending |-> <<>>,
     calling |-> NoCall, pre |-> "intact", error |-> "", observed |-> "nothing",
     crashed |-> FALSE]

Init ==
    /\ now \in StartDates
    /\ file \in InitFiles(now)
    /\ call = NoCall
    /\ gated = TRUE
    /\ monthZero = StartsFromZero(file, now)
    /\ monthPU = 0
    /\ monthReq = 0
    /\ commitsOn = IF file.present /\ file.last_collection_date # None
                   THEN (file.last_collection_date :> file.collections_today)
                   ELSE [x \in {} |-> 0]
    /\ nCommits = 0
    /\ daysPassed = 0
    /\ pc = [p \in Procs |-> "idle"]
    /\ mem = [p \in Procs |-> NoFile]
    /\ grant = [p \in Procs |-> NoGrant]
    /\ run = NoRun
    /\ io = NoIO

-----------------------------------------------------------------------------
(* The inputs of the calls.                                                *)

Kinds == {"map_rgb", "ndvi", "zonal_stats", "general"}
CommitCosts == {NoCost, 20}
CheckCosts == {20, 30, 40, 50}
\* the number of requests a caller of check wants left; check_quota has no
\* such parameter and always asks for 1
MinRequests == {1, 2}

Called(name) == [NoCall EXCEPT !.name = name, !.pre = file, !.clock = now]

-----------------------------------------------------------------------------
(* The calls, each one atomic step of the single process.                  *)

Load ==
    LET l == load_quota(file, now)
    IN  /\ file' = l.file
        /\ call' = [Called("load") EXCEPT !.quota = l.quota]
        /\ UNCHANGED <<now, gated, monthZero, monthPU, monthReq, commitsOn,
                       nCommits, daysPassed, conc, aside>>

Check(pu_cost, min_requests) ==
    LET c == check_quota(file, now, pu_cost)
    IN  /\ file' = c.file
        /\ call' = [Called("check") EXCEPT !.cost = pu_cost,
                                           !.min_requests = min_requests,
                                           !.ok = c.ok]
        /\ UNCHANGED <<now, gated, monthZero, monthPU, monthReq, commitsOn,
                       nCommits, daysPassed, conc, aside>>

Commit(kind, pu_cost) ==
    LET charged == IF pu_cost = NoCost
                   THEN (CASE kind = "map_rgb" -> 50
                           [] kind = "ndvi" -> 30
                           [] kind = "zonal_stats" -> 40
                           [] OTHER -> 30)
                   ELSE pu_cost
        today == FormatDate(now)
    IN  /\ nCommits < MaxCommits
        /\ file' = use_quota(file, now, kind, pu_cost)
        /\ call' = [Called("commit") EXCEPT !.cost = charged]
        /\ gated' = (gated /\ call.name = "check" /\ call.ok /\ call.cost = charged)
        /\ monthPU' = monthPU + charged
        /\ monthReq' = monthReq + 1
        /\ commitsOn' = [d \in DOMAIN commitsOn \cup {today} |->
                            IF d = today
                            THEN (IF d \in DOMAIN commitsOn THEN commitsOn[d] ELSE 0) + 1
                            ELSE commitsOn[d]]
        /\ nCommits' = nCommits + 1
        /\ UNCHANGED <<now, monthZero, daysPassed, conc, aside>>

Status ==
    LET s == get_quota_status(file, now)
    IN  /\ file' = s.file
        /\ call' = [Called("status") EXCEPT !.status = s.status]
        /\ UNCHANGED <<now, gated, monthZero, monthPU, monthReq, commitsOn,
                       nCommits, daysPassed, conc, aside>>

AdvanceDay ==
    /\ daysPassed < MaxDays
    /\ now' = NextDay(now)
    /\ daysPassed' = daysPassed + 1
    /\ IF FormatMonth(now') # FormatMonth(now)
       THEN monthZero' = TRUE /\ monthPU' = 0 /\ monthReq' = 0
       ELSE UNCHANGED <<monthZero, monthPU, monthReq>>
    /\ UNCHANGED <<file, call, gated, commitsOn, nCommits, conc, aside>>

Next ==
    \/ Load
    \/ \E pu_cost \in CheckCosts, min_requests \in MinRequests :
          Check(pu_cost, min_requests)
    \/ \E kind \in Kinds, pu_cost \in CommitCosts : Commit(kind, pu_cost)
    \/ Status
    \/ AdvanceDay

Spec == Init /\ [][Next]_vars

-----------------------------------------------------------------------------
(* The reading calls over the calendar: load_quota and get_quota_status    *)
(* called at any time of day, on days around the ends of months of every   *)
(* length, on documents of small and of full-size limits.                  *)

ReadDates ==
    {[y |-> 2025, m |-> 12, d |-> 21], [y |-> 2025, m |-> 12, d |-> 31],
     [y |-> 2024, m |-> 2, d |-> 28], [y |-> 2025, m |-> 2, d |-> 27],
     [y |-> 2025, m |-> 4, d |-> 29]}

ReadClocks ==
    {[y |-> day.y, m |-> day.m, d |-> day.d, t |-> t] :
        day \in ReadDates, t \in 0..MaxTick}

ReadLimits == Limits \cup {[pu |-> 10000, req |-> 10000]}

\* the histories: none, one within the small limits, one beyond them, and a
\* long one that leaves 3000 of 10000 units
ReadHistories == {0, 2, 3, 175}

ReadFiles(t) ==
    {NoFile} \cup
    {Document(lim, day, r, 1) :
        lim \in ReadLimits, day \in {t, PrevMonthEnd(t)}, r \in ReadHistories}

InitRead ==
    /\ now \in ReadClocks
    /\ file \in ReadFiles(now)
    /\ call = NoCall
    /\ gated = TRUE
    /\ monthZero = StartsFromZero(file, now)
    /\ monthPU = 0
    /\ monthReq = 0
    /\ commitsOn = IF file.present /\ file.last_collection_date # None
                   THEN (file.last_collection_date :> file.collections_today)
                   ELSE [x \in {} |-> 0]
    /\ nCommits = 0
    /\ daysPassed = 0
    /\ pc = [p \in Procs |-> "idle"]
    /\ mem = [p \in Procs |-> NoFile]
    /\ grant = [p \in Procs |-> NoGrant]
    /\ run = NoRun
    /\ io = NoIO

\* the clock moves on within the day
AdvanceTime ==
    /\ now.t < MaxTick
    /\ now' = [now EXCEPT !.t = now.t + 1]
    /\ UNCHANGED <<file, call, gated, monthZero, monthPU, monthReq, commitsOn,
                   nCommits, daysPassed, conc, aside>>

NextLoad ==
    \/ Load
    \/ AdvanceTime
    \/ AdvanceDay

SpecLoad == InitRead /\ [][NextLoad]_vars

NextStatus ==
    \/ Status
    \/ AdvanceTime
    \/ AdvanceDay

SpecStatus == InitRead /\ [][NextStatus]_vars

-----------------------------------------------------------------------------
(* The collection run: collect_all_copernicus_data, a step at a time. A    *)
(* result is "value" (the provider returned something), "none" (it failed  *)
(* or returned nothing) or "absent" (the key was never assigned).          *)

MaxRuns == 1

Modes == {"normal", "economic", "minimal", "other"}

\* a flat estimate, whatever the mode
Mut_estimated_pu_flat(mode) == 220

\* estimated_pu.get(mode, 220)
estimated_pu(mode) ==
    CASE mode = "normal" -> 220
      [] mode = "economic" -> 90
      [] mode = "minimal" -> 30
      [] OTHER -> 220

\* every mode running the five sub-operations of the normal one
Mut_Operations_all(mode) == <<"map_rgb", "map_ndvi", "ndvi", "ndwi", "ndsi">>

\* the gated sub-operations of a mode, in the order the run takes them
Operations(mode) ==
    IF mode = "normal" THEN <<"map_rgb", "map_ndvi", "ndvi", "ndwi", "ndsi">>
    ELSE IF mode = "economic" THEN <<"ndvi", "ndwi", "ndsi">>
    ELSE <<"ndvi">>

\* a run committing whatever the provider returned
Mut_Truthy_always(result) == TRUE

\* if results[kind]: a path or a dict is true, None is not
Truthy(result) == result = "value"

\* the row save_results builds calls .get on results.get(key, {}), which is
\* None when the key was assigned None
save_results_raises(results) ==
    \E k \in {"weather", "ndvi", "ndwi", "ndsi"} : results[k] = "none"

RunFiles(t) ==
    {NoFile} \cup
    {Document(lim, day, r, 1) :
        lim \in Limits \cup {[pu |-> 300, req |-> 3]},
        day \in {t, PrevMonthEnd(t)}, r \in InitHistories}

InitRun ==
    /\ now \in StartDates
    /\ file \in RunFiles(now)
    /\ call = NoCall
    /\ gated = TRUE
    /\ monthZero = StartsFromZero(file, now)
    /\ monthPU = 0
    /\ monthReq = 0
    /\ commitsOn = IF file.present /\ file.last_collection_date # None
                   THEN (file.last_collection_date :> file.collections_today)
                   ELSE [x \in {} |-> 0]
    /\ nCommits = 0
    /\ daysPassed = 0
    /\ pc = [p \in Procs |-> "idle"]
    /\ mem = [p \in Procs |-> NoFile]
    /\ grant = [p \in Procs |-> NoGrant]
    /\ run = NoRun
    /\ io = NoIO

\* what the quota calls of Spec record, which the run leaves alone
single == <<call, gated, monthZero, monthPU, monthReq, commitsOn, nCommits,
            daysPassed>>

\* the run has returned or raised
Ended == run.pc \in {"idle", "denied", "returned", "raised"}

\* where the run goes after sub-operation number run.step
AfterStep(r) ==
    IF r.step < Len(Operations(r.mode))
    THEN [r EXCEPT !.pc = "check", !.step = r.step + 1]
    ELSE [r EXCEPT !.pc = "summary"]

\* print_quota_status(), then the check against the mode's estimate
R_Start(mode) ==
    LET s == get_quota_status(file, now)
        c == check_quota(s.file, now, estimated_pu(mode))
    IN  /\ Ended
        /\ run.n < MaxRuns
        /\ file' = c.file
        /\ run' = [NoRun EXCEPT !.pc = IF c.ok THEN "weather" ELSE "denied",
                                !.n = run.n + 1, !.mode = mode, !.at = now,
                                !.start = file, !.est = estimated_pu(mode)]
        /\ UNCHANGED <<now, single, conc, io>>

\* results['weather'] = get_weather_data()
R_Weather(result) ==
    /\ run.pc = "weather"
    /\ run' = [run EXCEPT !.pc = "check", !.step = 1,
                          !.results["weather"] = result]
    /\ UNCHANGED <<file, now, single, conc, io>>

\* if check_quota(kind, PU_COSTS[kind]):
R_Check ==
    LET kind == Operations(run.mode)[run.step]
        c == check_quota(file, now, PU_COSTS[kind])
    IN  /\ run.pc = "check"
        /\ file' = c.file
        /\ run' = IF c.ok
                  THEN [run EXCEPT !.pc = "operate", !.before = c.file,
                                   !.granted = @ \cup {run.step}]
                  ELSE AfterStep([run EXCEPT !.denied = @ \cup {run.step},
                                             !.last = "denied"])
        /\ UNCHANGED <<now, single, conc, io>>

\* results[kind] = get_...(): the provider returns a result, returns None,
\* or never returns
R_Operate(result) ==
    LET kind == Operations(run.mode)[run.step]
        r == [run EXCEPT !.attempted = @ \cup {run.step}]
    IN  /\ run.pc = "operate"
        /\ run' = IF result = "hang"
                  THEN [r EXCEPT !.pc = "hung"]
                  ELSE IF Truthy(result)
                  THEN [r EXCEPT !.pc = "commit", !.results[kind] = result]
                  ELSE AfterStep([r EXCEPT !.results[kind] = result,
                                           !.failed = @ \cup {run.step},
                                           !.last = "none"])
        /\ UNCHANGED <<file, now, single, conc, io>>

\* use_quota(kind)
R_Commit ==
    LET kind == Operations(run.mode)[run.step]
    IN  /\ run.pc = "commit"
        /\ file' = use_quota(file, now, kind, NoCost)
        /\ run' = AfterStep([run EXCEPT !.commits = @ + 1,
                                        !.spent = @ + PuCostOf(kind, NoCost),
                                        !.last = "commit"])
        /\ UNCHANGED <<now, single, conc, io>>

\* the summary, print_quota_status(), save_results(results), return results
R_Finish ==
    /\ run.pc = "summary"
    /\ file' = get_quota_status(file, now).file
    /\ run' = [run EXCEPT !.pc = IF save_results_raises(run.results)
                                 THEN "raised" ELSE "returned"]
    /\ UNCHANGED <<now, single, conc, io>>

\* midnight may pass during a run or between runs
NextRun ==
    \/ \E mode \in Modes : R_Start(mode)
    \/ \E result \in {"value", "none"} : R_Weather(result)
    \/ R_Check
    \/ \E result \in {"value", "none", "hang"} : R_Operate(result)
    \/ R_Commit
    \/ R_Finish
    \/ AdvanceDay

SpecRun == InitRun /\ [][NextRun]_vars

-----------------------------------------------------------------------------
(* The calls on the bytes of QUOTA_FILE: a read that can fail, and a save  *)
(* taken a step at a time -- open(QUOTA_FILE, 'w') truncates, json.dump    *)
(* writes, leaving the with block closes -- with a reader and a crash      *)
(* possible between the steps.                                             *)

\* a read handing out the last document it knew when the bytes do not parse
Mut_ReadQuota_fallback(disk, f) == [raised |-> FALSE, quota |-> f]

\* with open(QUOTA_FILE, 'r') as f: quota = json.load(f)
ReadQuota(disk, f) ==
    IF disk = "intact"
    THEN [raised |-> FALSE, quota |-> f]
    ELSE [raised |-> TRUE, quota |-> NoFile]

\* a call that raised: it has no result
Raised(c) == [NoCall EXCEPT !.name = c.name, !.pre = c.pre, !.clock = c.clock]

IOCalls == {"load", "check", "commit", "status"}
IOCost == 30

InitIO ==
    /\ now \in StartDates
    /\ file \in InitFiles(now)
    /\ call = NoCall
    /\ gated = TRUE
    /\ monthZero = StartsFromZero(file, now)
    /\ monthPU = 0
    /\ monthReq = 0
    /\ commitsOn = IF file.present /\ file.last_collection_date # None
                   THEN (file.last_collection_date :> file.collections_today)
                   ELSE [x \in {} |-> 0]
    /\ nCommits = 0
    /\ daysPassed = 0
    /\ pc = [p \in Procs |-> "idle"]
    /\ mem = [p \in Procs |-> NoFile]
    /\ grant = [p \in Procs |-> NoGrant]
    /\ run = NoRun
    /\ \E d \in {"intact", "unreadable"}, w \in BOOLEAN :
          /\ d = "unreadable" => file.present
          /\ io = [NoIO EXCEPT !.disk = d, !.pre = d, !.writable = w]

\* A quota function is called: it reads the file, and either raises, returns,
\* or has one or two documents to save (use_quota saves the month's reset
\* inside load_quota and then its own update).
IO_Call(name) ==
    LET rd == IF io.disk = "intact" /\ ~file.present
              THEN [raised |-> FALSE, quota |-> NoFile]
              ELSE ReadQuota(io.disk, file)
        l == load_quota(rd.quota, now)
        writes == (IF l.file # rd.quota THEN <<l.file>> ELSE <<>>)
                   \o (IF name = "commit"
                       THEN <<use_quota(rd.quota, now, "ndvi", NoCost)>>
                       ELSE <<>>)
        c == Called(name)
        result == CASE name = "load" -> [c EXCEPT !.quota = l.quota]
                    [] name = "check" ->
                         [c EXCEPT !.cost = IOCost,
                                   !.ok = check_quota(rd.quota, now, IOCost).ok]
                    [] name = "status" ->
                         [c EXCEPT !.status = get_quota_status(rd.quota, now).status]
                    [] OTHER -> [c EXCEPT !.cost = PuCostOf("ndvi", NoCost)]
    IN  /\ io.stage = "idle"
        /\ name = "commit" => nCommits < MaxCommits
        /\ nCommits' = IF name = "commit" THEN nCommits + 1 ELSE nCommits
        /\ IF rd.raised
           THEN /\ call' = Raised(c)
                /\ io' = [io EXCEPT !.pre = io.disk, !.error = "read",
                                    !.crashed = FALSE]
           ELSE IF writes = <<>>
           THEN /\ call' = result
                /\ io' = [io EXCEPT !.pre = io.disk, !.error = "",
                                    !.crashed = FALSE]
           ELSE /\ call' = call
                /\ io' = [io EXCEPT !.stage = "saving", !.pending = writes,
                                    !.calling = result, !.pre = io.disk,
                                    !.error = "", !.crashed = FALSE]
        /\ UNCHANGED <<file, now, gated, monthZero, monthPU, monthReq, commitsOn,
                       daysPassed, conc, run>>

\* open(QUOTA_FILE, 'w'): the file is truncated, or the open is refused
IO_Open ==
    /\ io.stage = "saving"
    /\ IF io.writable
       THEN /\ io' = [io EXCEPT !.stage = "open", !.disk = "empty"]
            /\ call' = call
       ELSE /\ io' = [io EXCEPT !.stage = "idle", !.pending = <<>>,
                                !.calling = NoCall, !.error = "open"]
            /\ call' = Raised(io.calling)
    /\ UNCHANGED <<file, now, gated, monthZero, monthPU, monthReq, commitsOn,
                   nCommits, daysPassed, conc, run>>

\* json.dump: part of the document reaches the file
IO_Write ==
    /\ io.stage = "open"
    /\ io.disk = "empty"
    /\ io' = [io EXCEPT !.disk = "partial"]
    /\ UNCHANGED <<file, call, now, gated, monthZero, monthPU, monthReq,
                   commitsOn, nCommits, daysPassed, conc, run>>

\* the with block is left: the whole document is in the file
IO_Close ==
    /\ io.stage = "open"
    /\ file' = Head(io.pending)
    /\ IF Len(io.pending) > 1
       THEN /\ io' = [io EXCEPT !.stage = "saving", !.disk = "intact",
                                !.pending = Tail(io.pending)]
            /\ call' = call
       ELSE /\ io' = [io EXCEPT !.stage = "idle", !.disk = "intact",
                                !.pending = <<>>, !.calling = NoCall]
            /\ call' = io.calling
    /\ UNCHANGED <<now, gated, monthZero, monthPU, monthReq, commitsOn,
                   nCommits, daysPassed, conc, run>>

\* json.dump raises (the disk is full): the call ends in the error
IO_Fail ==
    /\ io.stage = "open"
    /\ io' = [io EXCEPT !.stage = "idle", !.pending = <<>>, !.calling = NoCall,
                        !.error = "write"]
    /\ call' = Raised(io.calling)
    /\ UNCHANGED <<file, now, gated, monthZero, monthPU, monthReq, commitsOn,
                   nCommits, daysPassed, conc, run>>

\* the process is killed during a save; the next call is a new process's
IO_Crash ==
    /\ io.stage = "open"
    /\ io' = [io EXCEPT !.stage = "idle", !.pending = <<>>, !.calling = NoCall,
                        !.crashed = TRUE]
    /\ UNCHANGED <<file, call, now, gated, monthZero, monthPU, monthReq,
                   commitsOn, nCommits, daysPassed, conc, run>>

\* another process, or the recovery after a crash, reads the file
IO_Observe ==
    /\ io.observed # io.disk
    /\ io' = [io EXCEPT !.observed = io.disk]
    /\ UNCHANGED <<file, call, now, gated, monthZero, monthPU, monthReq,
                   commitsOn, nCommits, daysPassed, conc, run>>

NextIO ==
    \/ \E name \in IOCalls : IO_Call(name)
    \/ IO_Open
    \/ IO_Write
    \/ IO_Close
    \/ IO_Fail
    \/ IO_Crash
    \/ IO_Observe
    \/ AdvanceDay

SpecIO == InitIO /\ [][NextIO]_vars

-----------------------------------------------------------------------------
(* Two processes on the same file. Each runs the protocol of a gated       *)
(* sub-operation of collect_all_copernicus_data: check_quota with the      *)
(* kind's cost, the provider call, use_quota on success. check_quota is    *)
(* one step; use_quota is its load_quota (a read, and the rollover's       *)
(* write) and then its update and save_quota (a write).                    *)

ConcKinds == {"map_rgb", "ndvi"}

InFlight == {p \in Procs : pc[p] # "idle"}

P_Check(p, kind) ==
    LET l == load_quota(file, now)
        c == check_quota(file, now, PU_COSTS[kind])
    IN  /\ pc[p] = "idle"
        /\ nCommits + Cardinality(InFlight) < MaxCommits
        /\ file' = c.file
        /\ IF c.ok
           THEN /\ pc' = [pc EXCEPT ![p] = "granted"]
                /\ grant' = [grant EXCEPT ![p] =
                                [kind |-> kind, cost |-> PU_COSTS[kind],
                                 seen |-> l.quota, at |-> nCommits, done |-> FALSE]]
           ELSE UNCHANGED <<pc, grant>>
        /\ UNCHANGED <<now, call, gated, monthZero, monthPU, monthReq, commitsOn,
                       nCommits, daysPassed, mem, aside>>

\* the provider call: a result, or None
P_Operate(p, result) ==
    /\ pc[p] = "granted"
    /\ pc' = [pc EXCEPT ![p] = IF result THEN "use_quota" ELSE "idle"]
    /\ UNCHANGED <<file, now, call, gated, monthZero, monthPU, monthReq, commitsOn,
                   nCommits, daysPassed, mem, grant, aside>>

\* use_quota: quota = load_quota()
P_Load(p) ==
    LET l == load_quota(file, now)
    IN  /\ pc[p] = "use_quota"
        /\ file' = l.file
        /\ mem' = [mem EXCEPT ![p] = l.quota]
        /\ pc' = [pc EXCEPT ![p] = "loaded"]
        /\ UNCHANGED <<now, call, gated, monthZero, monthPU, monthReq, commitsOn,
                       nCommits, daysPassed, grant, aside>>

\* use_quota: the update of the dict and save_quota(quota)
P_Save(p) ==
    LET today == FormatDate(now)
    IN  /\ pc[p] = "loaded"
        /\ file' = use_quota_update(mem[p], now, grant[p].kind, NoCost)
        /\ mem' = [mem EXCEPT ![p] = NoFile]
        /\ pc' = [pc EXCEPT ![p] = "idle"]
        /\ grant' = [grant EXCEPT ![p].done = TRUE]
        /\ monthPU' = monthPU + grant[p].cost
        /\ monthReq' = monthReq + 1
        /\ commitsOn' = [d \in DOMAIN commitsOn \cup {today} |->
                            IF d = today
                            THEN (IF d \in DOMAIN commitsOn THEN commitsOn[d] ELSE 0) + 1
                            ELSE commitsOn[d]]
        /\ nCommits' = nCommits + 1
        /\ UNCHANGED <<now, call, gated, monthZero, daysPassed, aside>>

NextConc ==
    \/ \E p \in Procs, kind \in ConcKinds : P_Check(p, kind)
    \/ \E p \in Procs, result \in BOOLEAN : P_Operate(p, result)
    \/ \E p \in Procs : P_Load(p)
    \/ \E p \in Procs : P_Save(p)
    \/ AdvanceDay

SpecConc == Init /\ [][NextConc]_vars

-----------------------------------------------------------------------------
(* What the claims read off a state.                                       *)

RemainingPU(f) == f.monthly_limit_pu - f.processing_units_used
RemainingRequests(f) == f.monthly_limit_requests - f.requests_used

\* the last call found a document of the calendar month it ran in
FoundCurrent == call.pre.present /\ call.pre.current_month = FormatMonth(call.clock)

\* the last call found a document of an earlier month
FoundStale == call.pre.present /\ call.pre.current_month # FormatMonth(call.clock)

\* the usage a document records
UsageCounters(f) ==
    <<f.processing_units_used, f.requests_used, f.collections_today>>

\* the results of the run's sub-operations that are a value
Succeeded ==
    {k \in run.attempted : run.results[Operations(run.mode)[k]] = "value"}

\* the last call returned nothing its caller could use
NoResult == call.quota = NoFile /\ call.status = NoStatus /\ ~call.ok

\* the bytes the last call found could not be read or parsed
FoundDamaged == io.pre \in {"empty", "partial", "unreadable"}

\* the last call had a document to save
HadToSave ==
    \/ call.name = "commit"
    \/ load_quota(call.pre, call.clock).file # call.pre

\* the sub-operation whose check the run has just been denied
JustDenied ==
    IF run.pc = "check" THEN run.step - 1 ELSE Len(Operations(run.mode))

CommitsMadeOn(date) == IF date \in DOMAIN commitsOn THEN commitsOn[date] ELSE 0

-----------------------------------------------------------------------------
(* C1: when every commit directly follows a granted check of the same PU   *)
(* cost, processing_units_used <= monthly_limit_pu and requests_used <=    *)
(* monthly_limit_requests hold after every commit.                         *)
C1_GatedCommitsWithinLimits ==
    (gated /\ call.name = "commit") =>
        /\ file.processing_units_used <= file.monthly_limit_pu
        /\ file.requests_used <= file.monthly_limit_requests

\* a gated commit that takes both counters exactly to their limits
C1_Witness ==
    /\ gated /\ call.name = "commit" /\ FoundCurrent
    /\ call.pre.processing_units_used > 0
    /\ file.processing_units_used = file.monthly_limit_pu
    /\ file.requests_used = file.monthly_limit_requests

C3_CommitAccumulation ==
    (monthZero /\ file.present /\ file.current_month = FormatMonth(now)) =>
        /\ file.processing_units_used = monthPU
        /\ file.requests_used = monthReq

\* three commits adding up to 100 PU
C3_Witness ==
    /\ monthZero /\ file.present /\ file.current_month = FormatMonth(now)
    /\ call.name = "commit" /\ monthReq = 3 /\ monthPU = 100
    /\ file.processing_units_used = 100 /\ file.requests_used = 3

(* C4: a load that finds a stale current_month zeroes                      *)
(* processing_units_used, requests_used and collections_today, sets        *)
(* current_month to the current month and persists that before returning,  *)
(* so that a following load returns zeroed counters too.                   *)
C4_RolloverResetPersisted ==
    (call.name = "load" /\ FoundStale) =>
        /\ call.quota.processing_units_used = 0
        /\ call.quota.requests_used = 0
        /\ call.quota.collections_today = 0
        /\ call.quota.current_month = FormatMonth(call.clock)
        /\ file = call.quota
        /\ LET again == load_quota(file, now).quota
           IN  /\ again.processing_units_used = 0
               /\ again.requests_used = 0
               /\ again.collections_today = 0

\* a load that found used counters of the month before
C4_Witness ==
    /\ call.name = "load" /\ FoundStale
    /\ call.pre.processing_units_used > 0 /\ call.pre.collections_today > 0
    /\ file.processing_units_used = 0

(* C5: check, commit and status work on the counters of the calendar month *)
(* of the call: after a month turn the check is decided against the full   *)
(* limits, the first commit leaves processing_units_used = its cost and    *)
(* requests_used = 1, the reset is persisted, and current_month is the     *)
(* month of the call when it completes.                                    *)
C5_CurrentMonthOnly ==
    call.name \in {"check", "commit", "status"} =>
        /\ file.present
        /\ file.current_month = FormatMonth(call.clock)
        /\ FoundStale =>
            /\ call.name = "check" =>
                /\ call.ok <=> (/\ call.pre.monthly_limit_pu >= call.cost
                                /\ call.pre.monthly_limit_requests >= 1)
                /\ file.processing_units_used = 0 /\ file.requests_used = 0
            /\ call.name = "commit" =>
                /\ file.processing_units_used = call.cost
                /\ file.requests_used = 1
            /\ call.name = "status" =>
                /\ call.status.pu_used = 0
                /\ call.status.requests_used = 0
                /\ call.status.pu_remaining = call.pre.monthly_limit_pu
                /\ file.processing_units_used = 0 /\ file.requests_used = 0

\* the first commit of a new month, over used counters of the month before
C5_Witness ==
    /\ call.name = "commit" /\ FoundStale
    /\ call.pre.processing_units_used > 0 /\ call.pre.requests_used > 0
    /\ file.processing_units_used = call.cost /\ file.requests_used = 1

(* C6: check reserves nothing: while a process holds a granted check and   *)
(* nothing was committed or rolled over since, the persisted counters are  *)
(* those the check was decided on, so the other process's check is decided *)
(* on the same remaining budget; with both granted on one snapshot and     *)
(* both committed, processing_units_used can exceed monthly_limit_pu.      *)
C6_NoReservation ==
    \A p \in Procs :
        (/\ pc[p] \in {"granted", "use_quota"}
         /\ grant[p].at = nCommits
         /\ file.current_month = grant[p].seen.current_month) =>
            /\ file.present
            /\ RemainingPU(file) = RemainingPU(grant[p].seen)
            /\ RemainingRequests(file) = RemainingRequests(grant[p].seen)
            /\ RemainingPU(file) >= grant[p].cost

\* both granted on the same counters, both committed, and the limit is exceeded
C6_Witness ==
    /\ grant[1].done /\ grant[2].done
    /\ grant[1].seen = grant[2].seen
    /\ grant[1].seen.processing_units_used + grant[1].cost
            <= grant[1].seen.monthly_limit_pu
    /\ grant[2].seen.processing_units_used + grant[2].cost
            <= grant[2].seen.monthly_limit_pu
    /\ file.processing_units_used =
            grant[1].seen.processing_units_used + grant[1].cost + grant[2].cost
    /\ file.processing_units_used > file.monthly_limit_pu

(* C7: a commit, granted check or not, is never clamped or rejected: it    *)
(* sets processing_units_used to the old value plus its cost and           *)
(* requests_used to the old value plus 1, also beyond the limits. The old  *)
(* value is the one use_quota loads: the persisted counter, or 0 when the  *)
(* document is new or of an earlier month.                                 *)
C7_CommitNeverClamped ==
    call.name = "commit" =>
        IF FoundCurrent
        THEN /\ file.processing_units_used =
                    call.pre.processing_units_used + call.cost
             /\ file.requests_used = call.pre.requests_used + 1
        ELSE /\ file.processing_units_used = call.cost
             /\ file.requests_used = 1

\* a commit without a granted check that takes both counters over their limits
C7_Witness ==
    /\ call.name = "commit" /\ ~gated /\ FoundCurrent
    /\ call.pre.processing_units_used <= call.pre.monthly_limit_pu
    /\ file.processing_units_used > file.monthly_limit_pu
    /\ file.requests_used > file.monthly_limit_requests

(* C8 as stated: after a check or a status the persisted state is          *)
(* identical to the persisted state before the call.                       *)
C8_Original ==
    call.name \in {"check", "status"} => file = call.pre

(* C8 amended: a check or a status leaves the persisted state identical    *)
(* when it exists and its current_month is the calendar month of the call; *)
(* otherwise the call persists load's default document or load's rollover  *)
(* reset (the three counters zeroed, current_month and last_updated set)   *)
(* and changes nothing else.                                               *)
C8_ReadOnlyWithinMonth ==
    call.name \in {"check", "status"} =>
        /\ FoundCurrent => file = call.pre
        /\ FoundStale =>
             file = [call.pre EXCEPT !.current_month = FormatMonth(call.clock),
                                     !.processing_units_used = 0,
                                     !.requests_used = 0,
                                     !.collections_today = 0,
                                     !.last_updated = IsoFormat(call.clock)]
        /\ ~call.pre.present =>
             file = [DefaultQuota(call.clock) EXCEPT
                        !.last_updated = IsoFormat(call.clock)]

\* a denied check, on a later day than the last save, that left the document as it was
C8_Witness ==
    /\ call.name = "check" /\ ~call.ok /\ FoundCurrent
    /\ call.pre.last_updated # IsoFormat(call.clock)
    /\ file = call.pre

(* C9: a commit on a date other than last_collection_date sets             *)
(* collections_today to 1 and last_collection_date to its date; a commit   *)
(* on last_collection_date adds 1 to collections_today and leaves          *)
(* last_collection_date.                                                   *)
C9_DailyCounter ==
    call.name = "commit" =>
        IF call.pre.present /\ call.pre.last_collection_date = FormatDate(call.clock)
        THEN /\ file.collections_today = call.pre.collections_today + 1
             /\ file.last_collection_date = call.pre.last_collection_date
        ELSE /\ file.collections_today = 1
             /\ file.last_collection_date = FormatDate(call.clock)

\* a commit on day D+1 after two commits on day D
C9_Witness ==
    /\ call.name = "commit" /\ call.pre.present
    /\ call.pre.last_collection_date = FormatDate(PrevDay(call.clock))
    /\ call.pre.collections_today = 2
    /\ CommitsMadeOn(call.pre.last_collection_date) = 2
    /\ file.collections_today = 1
    /\ file.last_collection_date = FormatDate(call.clock)

(* C10 as stated: in every persisted state collections_today is the number *)
(* of commits made on last_collection_date (0 when it is absent).          *)
C10_Original ==
    file.present =>
        file.collections_today =
            IF file.last_collection_date = None THEN 0
            ELSE CommitsMadeOn(file.last_collection_date)

(* C10 amended: collections_today is the number of commits made on         *)
(* last_collection_date while that date lies in the document's             *)
(* current_month; it is 0 when last_collection_date is absent and after a  *)
(* month rollover, until the next commit.                                  *)
C10_DailyCountUntilRollover ==
    file.present =>
        file.collections_today =
            IF file.last_collection_date = None THEN 0
            ELSE IF <<file.last_collection_date[1], file.last_collection_date[2]>>
                        = file.current_month
                 THEN CommitsMadeOn(file.last_collection_date)
                 ELSE 0

\* a rollover reset after commits on the last day of the month before
C10_Witness ==
    /\ file.present /\ nCommits >= 1
    /\ file.last_collection_date # None
    /\ file.current_month = FormatMonth(now)
    /\ <<file.last_collection_date[1], file.last_collection_date[2]>>
            # file.current_month
    /\ CommitsMadeOn(file.last_collection_date) = 2
    /\ file.collections_today = 0

(* C15: a load repeats itself. Whatever the first load of a day found -- no *)
(* document, one of this month, one of an earlier month -- a load made     *)
(* later the same day, with no commit in between, returns the document the *)
(* first one returned, its last_updated included.                          *)
C15_LoadIdempotent ==
    (call.name = "load" /\ FormatDate(now) = FormatDate(call.clock))
        => /\ load_quota(file, now).quota = call.quota
           /\ load_quota(file, now).file = file

\* a second load, later in the day than the load that wrote the document of
\* the new month, has returned that document with the first load's stamp
C15_Witness ==
    /\ call.name = "load"
    /\ call.pre = call.quota
    /\ call.clock.d # 1
    /\ call.quota.processing_units_used = 0
    /\ call.quota.last_updated[3] = call.clock.d
    /\ call.quota.last_updated[4] < call.clock.t
    /\ load_quota(file, now).quota = call.quota

\* the whole days from t to the first midnight of a month other than m0,
\* counted a day at a time
RECURSIVE DaysUntilFirst(_, _, _)
DaysUntilFirst(t, m0, n) ==
    IF FormatMonth(t) # m0
    THEN IF t.t = 0 THEN n ELSE n - 1
    ELSE DaysUntilFirst(NextDay(t), m0, n + 1)

(* C16: safe_daily_pu is pu_remaining divided by max(days_remaining, 1) and *)
(* rounded down when days_remaining is positive, and 0 when days_remaining *)
(* is 0; 3000 units over 10 days give 300.                                 *)
C16_SafeDailyPU ==
    call.name = "status" =>
        LET s == call.status
            m == IF s.days_remaining > 1 THEN s.days_remaining ELSE 1
        IN  /\ s.days_remaining > 0 =>
                  /\ s.safe_daily_pu * m <= s.pu_remaining
                  /\ s.pu_remaining < (s.safe_daily_pu + 1) * m
            /\ s.days_remaining = 0 => s.safe_daily_pu = 0
            /\ (s.pu_remaining = 3000 /\ s.days_remaining = 10)
                  => s.safe_daily_pu = 300

C16_Witness ==
    /\ call.name = "status"
    /\ call.status.pu_remaining = 3000
    /\ call.status.days_remaining = 10
    /\ call.status.safe_daily_pu = 300

(* C17: days_remaining is the number of whole days from the moment of the  *)
(* call to midnight of the first day of the next month, January of the     *)
(* next year after December; it lies between 0 and the length of the       *)
(* month, and is 0 at any time after midnight on the month's last day.     *)
C17_DaysRemaining ==
    call.name = "status" =>
        LET t == call.clock
            d == call.status.days_remaining
        IN  /\ d = DaysUntilFirst(t, FormatMonth(t), 0)
            /\ 0 <= d
            /\ d <= DaysInMonth(t.y, t.m)
            /\ (t.d = DaysInMonth(t.y, t.m) /\ t.t > 0) => d = 0
            /\ (t.d = 1 /\ t.t = 0) => d = DaysInMonth(t.y, t.m)

\* the status asked after midnight on the 31st of December
C17_Witness ==
    /\ call.name = "status"
    /\ call.clock.m = 12
    /\ call.clock.d = 31
    /\ call.clock.t > 0
    /\ call.status.days_remaining = 0

(* C19: when no document is persisted, the first load -- made directly or  *)
(* inside a check, a commit or a status -- creates and persists the        *)
(* default document: limits 10000 and 10000, daily budgets 300 and 300,    *)
(* counters zero, no last collection date, current_month the month of the  *)
(* call (a commit then adds its own charge to it). Later loads in that     *)
(* month return the persisted document.                                    *)
C19_DefaultCreated ==
    LET t == call.clock
        fresh == [present |-> TRUE, monthly_limit_pu |-> 10000,
                  monthly_limit_requests |-> 10000,
                  current_month |-> <<t.y, t.m>>,
                  processing_units_used |-> 0, requests_used |-> 0,
                  last_updated |-> <<t.y, t.m, t.d, t.t>>,
                  daily_budget_pu |-> 300, daily_budget_requests |-> 300,
                  collections_today |-> 0, last_collection_date |-> <<>>]
    IN  /\ (call.name \in {"load", "check", "status"} /\ ~call.pre.present)
              => file = fresh
        /\ (call.name = "load" /\ ~call.pre.present) => call.quota = fresh
        /\ (call.name = "commit" /\ ~call.pre.present)
              => file = [fresh EXCEPT !.processing_units_used = call.cost,
                                      !.requests_used = 1,
                                      !.collections_today = 1,
                                      !.last_collection_date = <<t.y, t.m, t.d>>]
        /\ (call.name = "load" /\ FoundCurrent)
              => (call.quota = call.pre /\ file = call.pre)

\* a load on a later day of the month returns the default document an
\* earlier call created and nothing has committed to
C19_Witness ==
    /\ call.name = "load"
    /\ FoundCurrent
    /\ call.pre.monthly_limit_pu = 10000
    /\ call.pre.monthly_limit_requests = 10000
    /\ call.pre.processing_units_used = 0
    /\ call.pre.last_collection_date = None
    /\ call.pre.last_updated[3] < call.clock.d
    /\ call.quota = call.pre
    /\ file = call.pre

(* C20: the status can be computed in every reachable state: the limit it  *)
(* divides by is never zero; pu_remaining is the limit less the units used *)
(* and requests_remaining the limit less the requests used; in a month     *)
(* just created or rolled over pu_used is 0, pu_remaining and              *)
(* requests_remaining equal their limits, percent_used is 0 and            *)
(* collections_today is 0.                                                 *)
C20_StatusComputable ==
    /\ file.present => file.monthly_limit_pu # 0
    /\ call.name = "status" =>
          LET s == call.status
          IN  /\ file.present
              /\ s.percent_used[2] # 0
              /\ s.pu_limit = file.monthly_limit_pu
              /\ s.pu_used = file.processing_units_used
              /\ s.requests_used = file.requests_used
              /\ s.pu_remaining = file.monthly_limit_pu - file.processing_units_used
              /\ s.requests_remaining =
                    file.monthly_limit_requests - file.requests_used
              /\ ~FoundCurrent =>
                    /\ s.pu_used = 0
                    /\ s.pu_remaining = s.pu_limit
                    /\ s.requests_remaining = file.monthly_limit_requests
                    /\ s.percent_used[1] = 0
                    /\ s.collections_today = 0

\* the status of a month rolled over from one that had used more than its limit
C20_Witness ==
    /\ call.name = "status"
    /\ FoundStale
    /\ call.pre.processing_units_used > call.pre.monthly_limit_pu
    /\ call.status.pu_used = 0
    /\ call.status.pu_remaining = call.status.pu_limit
    /\ call.status.percent_used[1] = 0
    /\ call.status.collections_today = 0

(* C11: in a collection run a sub-operation whose provider call fails,    *)
(* returns no result or never completes is not followed by a commit: the   *)
(* persisted document, its processing_units_used, requests_used and        *)
(* collections_today included, is after the sub-operation what it was      *)
(* before it, and the run has committed once for each result it obtained.  *)
C11_CommitOnlyOnSuccess ==
    /\ run.pc = "hung" => file = run.before
    /\ (run.last = "none" /\ run.pc \in {"check", "summary"}) =>
          /\ file = run.before
          /\ UsageCounters(file) = UsageCounters(run.before)
    /\ run.pc \in {"check", "summary", "returned", "raised", "hung"} =>
          run.commits = Cardinality(Succeeded)
    /\ run.failed \cap Succeeded = {}

\* a sub-operation has just failed, after another one was committed
C11_Witness ==
    /\ run.pc \in {"check", "summary"}
    /\ run.last = "none"
    /\ run.failed # {}
    /\ run.commits > 0
    /\ run.before.present
    /\ file = run.before

(* C12 as stated: a run whose check against the mode's estimate is denied  *)
(* ends with the usage counters it found.                                  *)
C12_Original ==
    (run.pc = "denied" /\ run.start.present) =>
        UsageCounters(file) = UsageCounters(run.start)

(* C12: a collection run makes one check against its mode's estimate       *)
(* (normal 220, economic 90, minimal 30) before any gated sub-operation.   *)
(* If it is denied, no sub-operation is checked or attempted, nothing is   *)
(* committed, and the document is left as the run's first load made it:    *)
(* unchanged when it was of the current month, its counters reset when it  *)
(* was of an earlier one. Every sub-operation attempted was granted by its *)
(* own check just before.                                                  *)
C12_CoarseCheckFirst ==
    run.n > 0 =>
        LET found == load_quota(run.start, run.at).quota
        IN  /\ run.mode = "normal" => run.est = 220
            /\ run.mode = "economic" => run.est = 90
            /\ run.mode = "minimal" => run.est = 30
            /\ run.pc = "denied" =>
                  /\ run.granted = {} /\ run.denied = {} /\ run.attempted = {}
                  /\ run.commits = 0
                  /\ file = found
                  /\ (run.start.present
                        /\ run.start.current_month = FormatMonth(run.at))
                       => file = run.start
                  /\ \/ RemainingPU(found) < run.est
                     \/ RemainingRequests(found) < 1
            /\ run.pc # "denied" =>
                  /\ RemainingPU(found) >= run.est
                  /\ RemainingRequests(found) >= 1
            /\ run.attempted \subseteq run.granted
            /\ run.pc \in {"operate", "commit", "hung"} =>
                  /\ run.step \in run.granted
                  /\ run.before.present
                  /\ RemainingPU(run.before)
                        >= PU_COSTS[Operations(run.mode)[run.step]]
                  /\ RemainingRequests(run.before) >= 1

\* a run denied at its first check, in a month the document had not yet seen
C12_Witness ==
    /\ run.pc = "denied"
    /\ run.start.present
    /\ run.start.current_month # FormatMonth(run.at)
    /\ run.start.processing_units_used > 0
    /\ file.processing_units_used = 0
    /\ run.attempted = {}

(* C13: when a check inside a collection run is denied only that           *)
(* sub-operation is skipped: every sub-operation before the run's place    *)
(* has been checked, and a run that has ended has checked them all and     *)
(* has returned its results.                                               *)
C13_Original ==
    run.denied # {} =>
        /\ run.pc \in {"check", "operate", "commit", "hung"} =>
              \A k \in 1..(run.step - 1) : k \in run.granted \cup run.denied
        /\ run.pc \in {"summary", "returned", "raised"} =>
              run.granted \cup run.denied = 1..Len(Operations(run.mode))
        /\ run.pc # "raised"

\* a run that skipped a denied sub-operation, went on, and ended in the
\* exception of save_results
C13_Witness ==
    /\ run.denied # {}
    /\ run.commits > 0
    /\ run.granted \cup run.denied = 1..Len(Operations(run.mode))
    /\ run.results["weather"] = "none"
    /\ run.pc = "raised"

(* C14: a save replaces the persisted state atomically: whatever a         *)
(* concurrent reader, or the recovery after a crash, finds in the file at  *)
(* any step of a save is the whole previous document or the whole new      *)
(* one, never an empty or a partly written file.                           *)
C14_Original ==
    /\ io.observed \notin {"empty", "partial"}
    /\ (io.crashed /\ io.stage = "idle") => io.disk \notin {"empty", "partial"}

\* a reader found the file empty while a commit was saving over a whole
\* document of the current month
C14_Witness ==
    /\ io.stage = "open"
    /\ io.calling.name = "commit"
    /\ io.calling.pre.present
    /\ io.pre = "intact"
    /\ io.observed = "empty"

(* C18: when the persisted state is there but cannot be read or parsed,    *)
(* or cannot be written, load, check, commit and status end in an error:   *)
(* the call returns no result -- none computed from a default or from a    *)
(* state kept in memory -- and a failed read leaves the file as it was.    *)
C18_ErrorsSurface ==
    (call.name # "none" /\ io.stage = "idle" /\ ~io.crashed) =>
        /\ FoundDamaged =>
              /\ io.error = "read"
              /\ io.disk = io.pre
              /\ file = call.pre
        /\ (~FoundDamaged /\ HadToSave /\ ~io.writable) => io.error = "open"
        /\ io.error # "" => NoResult
        /\ io.error \in {"read", "open"} => (file = call.pre /\ io.disk = io.pre)
        /\ io.error = "" =>
              /\ ~FoundDamaged
              /\ io.disk = "intact"
              /\ HadToSave => io.writable

\* a status asked on a file that a killed save left partly written ends in
\* the read error, and the file is as it was
C18_Witness ==
    /\ call.name = "status"
    /\ io.stage = "idle"
    /\ ~io.crashed
    /\ call.pre.present
    /\ io.pre = "partial"
    /\ io.error = "read"
    /\ NoResult
    /\ io.disk = "partial"

(* C24 as stated: in every state and on every date the status satisfies   *)
(* safe_daily_pu * days_remaining <= pu_remaining, also when pu_remaining  *)
(* is negative.                                                            *)
C24_Original ==
    call.name = "status" =>
        call.status.safe_daily_pu * call.status.days_remaining
            <= call.status.pu_remaining

(* C24: the recommended daily rate does not over-allocate what remains:    *)
(* safe_daily_pu * days_remaining <= pu_remaining whenever days_remaining  *)
(* is positive (also for a negative pu_remaining, the division rounding    *)
(* down) and whenever pu_remaining is not negative; on the month's last    *)
(* day, with days_remaining 0, the rate and the product are 0, which is    *)
(* above a negative pu_remaining.                                          *)
C24_NoOverAllocation ==
    call.name = "status" =>
        LET s == call.status
        IN  /\ s.days_remaining > 0 =>
                  s.safe_daily_pu * s.days_remaining <= s.pu_remaining
            /\ s.pu_remaining >= 0 =>
                  s.safe_daily_pu * s.days_remaining <= s.pu_remaining
            /\ s.days_remaining = 0 =>
                  s.safe_daily_pu * s.days_remaining = 0
            /\ s.days_remaining >= 0

\* a status after an overage, some days before the end of the month, where
\* the division does not come out even
C24_Witness ==
    /\ call.name = "status"
    /\ call.status.pu_remaining < 0
    /\ call.status.days_remaining > 1
    /\ call.status.safe_daily_pu * call.status.days_remaining
            < call.status.pu_remaining

(* C25: while the persisted current_month stays the same,                  *)
(* processing_units_used and requests_used never decrease, whatever load,  *)
(* check, commit and status calls the process makes; they go back to 0     *)
(* only in a step that changes current_month (a commit that rolls the      *)
(* month over leaves its own charge on the zeroed counters).               *)
C25_MonotoneWithinMonth ==
    [][(file.present /\ file'.present) =>
          /\ file'.current_month = file.current_month =>
                /\ file'.processing_units_used >= file.processing_units_used
                /\ file'.requests_used >= file.requests_used
          /\ (\/ file'.processing_units_used < file.processing_units_used
              \/ file'.requests_used < file.requests_used) =>
                /\ file'.current_month # file.current_month
                /\ file'.processing_units_used
                      = (IF call'.name = "commit" THEN call'.cost ELSE 0)
                /\ file'.requests_used
                      = (IF call'.name = "commit" THEN 1 ELSE 0)]_vars

\* a load in the month of a document that has usage, after a commit to it
C25_Witness ==
    /\ call.name = "load"
    /\ FoundCurrent
    /\ nCommits > 0
    /\ call.pre.processing_units_used > 0
    /\ file.processing_units_used = call.pre.processing_units_used
    /\ file.requests_used = call.pre.requests_used

(* C26: no call changes the limits or the advisory fields: the             *)
(* monthly_limit_pu, monthly_limit_requests, daily_budget_pu and           *)
(* daily_budget_requests of a document that exists are the same after      *)
(* every load (a month rollover included), check, commit and status.       *)
C26_LimitsUntouched ==
    (call.name # "none" /\ call.pre.present) =>
        /\ file.present
        /\ file.monthly_limit_pu = call.pre.monthly_limit_pu
        /\ file.monthly_limit_requests = call.pre.monthly_limit_requests
        /\ file.daily_budget_pu = call.pre.daily_budget_pu
        /\ file.daily_budget_requests = call.pre.daily_budget_requests
        /\ call.name = "load" =>
              /\ call.quota.monthly_limit_pu = call.pre.monthly_limit_pu
              /\ call.quota.monthly_limit_requests
                    = call.pre.monthly_limit_requests

\* a load that rolled the month over on a document whose limits are not
\* the default ones
C26_Witness ==
    /\ call.name = "load"
    /\ FoundStale
    /\ call.pre.monthly_limit_pu # 10000
    /\ file.current_month # call.pre.current_month
    /\ file.monthly_limit_pu = call.pre.monthly_limit_pu
    /\ file.monthly_limit_requests = call.pre.monthly_limit_requests

(* C22 as stated: once the check against the mode's estimate has been     *)
(* granted, no check of a sub-operation of that run is denied.             *)
C22_Original == run.denied = {}

(* C22: in a run of a single process, once the check against the mode's    *)
(* estimate has been granted no check of a sub-operation is denied for     *)
(* lack of processing units: what remains and what the run has committed   *)
(* always add up to the estimate at least. A check of a sub-operation is   *)
(* denied only for lack of requests, after the run's own commits have      *)
(* used the last one: the first check asks for a single request.           *)
C22_DeniedOnlyForRequests ==
    /\ (run.n > 0 /\ run.pc \notin {"idle", "denied"} /\ file.present) =>
          RemainingPU(file) + run.spent >= run.est
    /\ (run.last = "denied" /\ run.pc \in {"check", "summary"}) =>
          /\ RemainingPU(file) >= PU_COSTS[Operations(run.mode)[JustDenied]]
          /\ RemainingRequests(file) < 1
          /\ run.commits >= 1
    /\ run.denied # {} => run.commits >= 1

\* the second sub-operation of a run denied: the first one's commit took
\* the only request left, and units enough remain
C22_Witness ==
    /\ run.pc = "check"
    /\ run.last = "denied"
    /\ run.denied = {2}
    /\ run.commits = 1
    /\ RemainingRequests(file) = 0
    /\ RemainingPU(file) >= run.est - run.spent

(* C23: the units one collection run commits never exceed the estimate its *)
(* first check was made with: at most 220 in normal mode, 90 in economic,  *)
(* 30 in minimal, and 220 in any other mode (which runs as minimal),       *)
(* whatever the sub-operations that succeed; and they are what the run     *)
(* has added to processing_units_used.                                     *)
C23_RunWithinEstimate ==
    run.n > 0 =>
        /\ run.spent <= run.est
        /\ run.mode = "normal" => run.spent <= 220
        /\ run.mode = "economic" => run.spent <= 90
        /\ run.mode = "minimal" => run.spent <= 30
        /\ run.mode \notin {"normal", "economic", "minimal"} =>
              (run.est = 220 /\ run.spent <= 30)
        /\ (file.present /\ file.current_month = FormatMonth(run.at)) =>
              file.processing_units_used =
                  load_quota(run.start, run.at).quota.processing_units_used
                      + run.spent

\* an economic run whose three sub-operations all succeeded
C23_Witness ==
    /\ run.pc = "returned"
    /\ run.mode = "economic"
    /\ run.commits = 3
    /\ run.spent = 90
    /\ run.est = 90

(* C21 as stated: with two processes committing in any interleaving of    *)
(* their loads and saves within one month, processing_units_used is the    *)
(* sum of the costs of all the commits made and requests_used their        *)
(* number.                                                                 *)
C21_Original ==
    (/\ monthZero
     /\ daysPassed = 0
     /\ file.present
     /\ file.current_month = FormatMonth(now)
     /\ \A p \in Procs : pc[p] # "loaded") =>
        /\ file.processing_units_used = monthPU
        /\ file.requests_used = monthReq

(* C21: a commit saves the counters it loaded plus its own charge. When    *)
(* nothing was saved between its load and its save the file gains the      *)
(* commit's cost and one request, so commits that do not overlap are all   *)
(* kept; when the other process saved in between, that save is             *)
(* overwritten and its commit is lost from the ledger.                     *)
C21_CommitSavesWhatItLoaded ==
    [][\A p \in Procs :
          (pc[p] = "loaded" /\ pc'[p] = "idle") =>
              /\ file'.processing_units_used
                    = mem[p].processing_units_used + grant[p].cost
              /\ file'.requests_used = mem[p].requests_used + 1
              /\ mem[p] = file =>
                    /\ file'.processing_units_used
                          = file.processing_units_used + grant[p].cost
                    /\ file'.requests_used = file.requests_used + 1]_vars

\* both processes loaded the same counters and both saved: two commits
\* were made and the file records one
C21_Witness ==
    /\ monthZero
    /\ daysPassed = 0
    /\ file.present
    /\ file.current_month = FormatMonth(now)
    /\ \A p \in Procs : pc[p] = "idle" /\ grant[p].done
    /\ monthReq = 2
    /\ file.requests_used = 1
    /\ file.processing_units_used < monthPU

====
